---- MODULE Spec2Model ----
(***************************************************************************)
(* Model of the database migrator (db_migrator_function).                  *)
(*                                                                         *)
(* Two implementations of DatabaseMigrator are modelled:                   *)
(*   impl = "helper" : helper/migrator.js, the class index.js runs         *)
(*                     (shared pools, dryRun, tables taken in list order); *)
(*   impl = "root"   : migrator.js, the self-contained class that has      *)
(*                     getMigrationOrder and opens pools per table.        *)
(* One action is one awaited step of migrateTables / migrateTable.         *)
(***************************************************************************)
EXTENDS Integers, Sequences, FiniteSets, TLC

\* ------------------------------------------------------------------ bounds
MaxRows == 2
MaxChunk == 2
MaxFaults == 2
RunMaxRows == 1

\* ------------------------------------------------------------ universes
Tables == {"A", "B", "C"}
\* Column names: an ordinary one, one that is also the name of a member of
\* Object.prototype, the name of the accessor of an object's prototype, and
\* one that is also the name of a member of a column's descriptor.
Cols == {"id", "constructor", "__proto__", "type"}

\* The columns of the tables of a run: no name that changes the schema object.
RunCols == {"id", "constructor"}

\* The column sets a table is given when one table is migrated.
TableSchemas ==
    {{"id"}, {"constructor"}, {"id", "constructor"},
     {"__proto__"}, {"__proto__", "id"}, {"type", "id"}}

\* The lists given as ignoreColumns.
IgnoreLists == {{}, {"id"}, {"constructor"}}

\* The column names every plain object answers to with a truthy value: the
\* members it inherits from Object.prototype, its __proto__ accessor included.
ObjectPrototypeNames == {"constructor", "__proto__"}

\* The members of a column's descriptor {type, nullable, default, key} that
\* are truthy for every column: type (row.Type is never empty). The other
\* three are truthy or not by the column's attributes; none is a name of Cols.
DescriptorNames == {"type"}
Strategies == {"disable", "preserve", "cascade"}

VARIABLES
    impl,            \* which DatabaseMigrator class runs
    tables,          \* the caller's table list (argument of migrateTables)
    fks,             \* the source catalogue's foreign keys
    options,         \* the options record handed to migrateTables
    srcRows,         \* source database: number of rows of each table
    srcSchema,       \* source database: columns of each table
    tgtSchema,       \* target database: columns of each table
    pc,              \* position of the single control thread
    migrationOrder,  \* the sequence migrateTables iterates over
    cur,             \* index of the loop over migrationOrder
    results,         \* migrateTables' results mapping
    result,          \* migrateTable's result record
    commonColumns,   \* migrateTable's commonColumns
    offset,          \* migrateTable's read offset
    rows,            \* rows of the chunk whose INSERTs are awaited
    thrown,          \* the error on its way out of migrateTable, <<>> if none
    inflight,        \* INSERTs launched and not yet settled
    tgtOld,          \* target database: rows each table held before the run
    tgtNew,          \* target database: inserted copies of each source row
    backup,          \* target database: state of each table's backup table
    open,            \* pools currently open
    tlog,            \* statements this attempt has issued on the target
    reads,           \* source row reads this attempt has issued
    started,         \* tables whose attempt has begun, in order
    returned,        \* tables whose attempt has ended with a result stored, in order
    failed,          \* per attempt begun, the steps of it that failed
    tgtAtStart,      \* the table's target rows when this attempt began
    faults,          \* failures injected so far
    visited,         \* getMigrationOrder's visited set
    stack,           \* getMigrationOrder's loops under way, innermost last
    visits,          \* per table, the times visit went past its visited test
    sessions,        \* target pool: database sessions it has opened
    fkOff,           \* target pool: sessions whose foreign-key checks are off
    truncatedOn,     \* session that served this attempt's TRUNCATE, 0 if none
    tgtRows          \* target database: per table the rows INSERTs wrote, as
                     \* the source row and the columns its values were bound to

inputVars == <<impl, tables, fks, options, srcRows, srcSchema, tgtSchema>>
loopVars == <<migrationOrder, cur, results>>
localVars == <<result, commonColumns, offset, rows, thrown>>
dbVars == <<tgtOld, tgtNew, backup, tgtRows>>
histVars == <<tlog, reads, started, returned, failed, tgtAtStart>>
visitVars == <<visited, stack, visits>>
poolVars == <<sessions, fkOff, truncatedOn>>
vars == <<inputVars, pc, loopVars, localVars, inflight, dbVars, open, histVars, faults,
          visitVars, poolVars>>

\* ------------------------------------------------------------ sequences
Range(s) == {s[i] : i \in 1..Len(s)}

Includes(s, x) == \E i \in 1..Len(s) : s[i] = x

IndexOf(s, x) == CHOOSE i \in 1..Len(s) : s[i] = x /\ \A j \in 1..(i - 1) : s[j] /= x

RECURSIVE SeqsUpTo(_, _)
SeqsUpTo(S, n) ==
    IF n = 0 THEN {<<>>}
    ELSE LET shorter == SeqsUpTo(S, n - 1)
         IN shorter \cup {Append(s, x) : s \in shorter, x \in S}

Perms(S) == {s \in SeqsUpTo(S, Cardinality(S)) : Len(s) = Cardinality(S) /\ Range(s) = S}

\* ------------------------------------------------- getMigrationOrder
\* A foreign key is the catalogue row the query returns: TABLE_NAME is the
\* referencing (child) table, REFERENCED_TABLE_NAME the referenced (parent).
FK(child, parent) == [TABLE_NAME |-> child, REFERENCED_TABLE_NAME |-> parent]

AllFks == {FK(c, p) : c \in Tables, p \in Tables}

\* getForeignKeyDependencies(connection, tableName): the keys that reference tableName.
getForeignKeyDependencies(fk, tableName) ==
    {k \in fk : k.REFERENCED_TABLE_NAME = tableName}

\* dependencyGraph.get(key) after the two loops: the Set's members in insertion
\* order. The outer loop goes over tbls; a member `table` is added to the set
\* of fk.TABLE_NAME for each key referencing `table` whose TABLE_NAME is in tbls.
RECURSIVE dependencyGraph(_, _, _)
dependencyGraph(tbls, fk, key) ==
    IF tbls = <<>> THEN <<>>
    ELSE LET n == Len(tbls)
             table == tbls[n]
             before == dependencyGraph(SubSeq(tbls, 1, n - 1), fk, key)
         IN IF /\ \E k \in getForeignKeyDependencies(fk, table) : k.TABLE_NAME = key
               /\ ~Includes(before, table)
            THEN Append(before, table)
            ELSE before

RECURSIVE visit(_, _, _, _)
RECURSIVE visitEach(_, _, _, _)
\* visit(table): st is the closure's state, [visited, order].
visit(tbls, fk, table, st) ==
    IF table \in st.visited THEN st
    ELSE LET marked == [st EXCEPT !.visited = @ \cup {table}]
             after == visitEach(tbls, fk, dependencyGraph(tbls, fk, table), marked)
         IN [after EXCEPT !.order = <<table>> \o @]

\* for (const t of seq) visit(t)
visitEach(tbls, fk, seq, st) ==
    IF seq = <<>> THEN st
    ELSE visitEach(tbls, fk, Tail(seq), visit(tbls, fk, Head(seq), st))

\* Mutant: every name of the list is put at the front as it comes, visited or not.
getMigrationOrderUnvisited(tbls, fk) == [i \in 1..Len(tbls) |-> tbls[Len(tbls) + 1 - i]]

getMigrationOrder(tbls, fk) ==
    visitEach(tbls, fk, tbls, [visited |-> {}, order |-> <<>>]).order

\* ------------------------------------------ facts about a working set
\* The foreign keys among the working set.
EdgesAmong(tbls, fk) ==
    {k \in fk : Includes(tbls, k.TABLE_NAME) /\ Includes(tbls, k.REFERENCED_TABLE_NAME)}

RECURSIVE ReachIn(_, _, _)
\* Tables reached from S by following child -> parent keys at most n times.
ReachIn(E, S, n) ==
    IF n = 0 THEN S
    ELSE ReachIn(E, S \cup {k.REFERENCED_TABLE_NAME : k \in {e \in E : e.TABLE_NAME \in S}}, n - 1)

Ancestors(E, t) ==
    ReachIn(E, {k.REFERENCED_TABLE_NAME : k \in {e \in E : e.TABLE_NAME = t}}, Cardinality(Tables))

HasCycle(tbls, fk) == \E t \in Range(tbls) : t \in Ancestors(EdgesAmong(tbls, fk), t)

Before(s, x, y) == Includes(s, x) /\ Includes(s, y) /\ IndexOf(s, x) < IndexOf(s, y)

\* ------------------------------------------------------ migrateTable
\* The table of the attempt in progress (migrateTable's tableName).
table == migrationOrder[cur]

\* helper/migrator.js destructures dryRun from the options; migrator.js does
\* not, so there the option has no effect.
dryRun == impl = "helper" /\ options.dryRun

\* Mutant: every strategy but "preserve" toggles the checks.
FkToggledUnlessPreserve == options.foreignKeyStrategy /= "preserve" /\ ~dryRun

\* foreignKeyStrategy === "disable" && !dryRun; the third class reads no
\* foreignKeyStrategy and sends neither statement.
FkToggled == impl /= "legacy" /\ options.foreignKeyStrategy = "disable" /\ ~dryRun

\* Mutant: the checks are re-enabled at the end of the try block, not in finally.
FkRestoredOnSuccess == FkToggled /\ result.success

\* The finally block's condition; migrator.js also requires targetConn.
FkRestored == FkToggled /\ (impl = "root" => "targetConn" \in open)

\* Mutant: the condition of the backup inverted.
BackupWantedInverted == dryRun

\* if (!dryRun) backupTable(...)
BackupWanted == ~dryRun

\* Mutant: the target is never emptied.
TruncateWantedNever == FALSE

\* Mutant: the truncation forgets the dry run.
TruncateWantedAlways == options.truncateTarget

\* Mutant: the target is emptied whether or not truncateTarget is set.
TruncateWantedUnasked == ~dryRun

\* if (truncateTarget && !dryRun)
TruncateWanted == options.truncateTarget /\ ~dryRun

\* rows.reduce((acc, row) => { acc[row.Field] = {...}; return acc }, {}) over
\* the columns DESCRIBE returned: a plain object that gets one own key per
\* column, except that the assignment acc["__proto__"] = descriptor adds no
\* key and makes the descriptor the object's prototype (whose own prototype
\* is Object.prototype).
getTableSchema(columns) ==
    [own       |-> columns \ {"__proto__"},
     inherited |-> IF "__proto__" \in columns
                   THEN DescriptorNames \cup ObjectPrototypeNames
                   ELSE ObjectPrototypeNames]

\* Object.keys(schema): the object's own keys.
ObjectKeys(schema) == schema.own

\* targetSchema[col], read for its truth value: each own value is an object,
\* so the lookup is truthy for an own key and for a truthy inherited member.
Truthy(schema, col) == col \in schema.own \/ col \in schema.inherited

\* Object.keys(sourceSchema).filter(col => targetSchema[col] && !ignoreColumns.includes(col))
CommonColumns(t) ==
    {col \in ObjectKeys(getTableSchema(srcSchema[t])) :
        /\ Truthy(getTableSchema(tgtSchema[t]), col)
        /\ col \notin options.ignoreColumns}

\* SELECT ... LIMIT off, size on a source table whose rows are 1..srcRows[t].
RECURSIVE Page(_, _)
Page(from, to) == IF from > to THEN <<>> ELSE <<from>> \o Page(from + 1, to)

Min(a, b) == IF a < b THEN a ELSE b

SourcePage(t, off, size) == Page(off + 1, Min(off + size, srcRows[t]))

\* Error messages. A driver error carries the statement that failed.
DriverError(stmt) == <<"driver", stmt>>

\* dbUtils.getTableSchema wraps the driver's error; migrator.js rethrows it.
SchemaError(t, e) ==
    IF impl = "helper" THEN <<"Error getting schema for table", t, e>> ELSE e

\* dbUtils.backupTable wraps the driver's error; migrator.js rethrows it.
BackupError(t, e) ==
    IF impl = "helper" THEN <<"Error creating backup for table", t, e>> ELSE e

NoCommonColumns(t) == <<"No common columns found for table", t>>

\* const result = { table, success: false, rowsMigrated: 0, errors: [] }
NewResult(t) == [table |-> t, success |-> FALSE, rowsMigrated |-> 0, errors |-> <<>>]

\* The catch block: result.success = false; result.errors.push(error.message)
Caught(res, msg) == [res EXCEPT !.success = FALSE, !.errors = Append(@, msg)]

\* An injected failure is allowed while the fault budget lasts.
CanFail == faults < MaxFaults

\* A target table into which no source row has been inserted.
NoRows == [r \in 1..MaxRows |-> 0]

\* The failure of `step` noted for the attempt in progress.
Failing(step) == [failed EXCEPT ![Len(failed)] = @ \cup {step}]

\* helper/migrator.js logs through console, which settles at once; the two
\* classes of migrator.js append to a file (createLogger: await fs.appendFile),
\* a wait that can be rejected.
FileLogger == impl /= "helper"

\* No error is propagating.
None == <<>>

\* The error a rejected fs.appendFile carries.
LogError == <<"fs", "appendFile">>

\* The throw of a step inside migrateTable's try: the catch block sets success
\* to false and pushes the message, then awaits logger.error; with the console
\* logger control is in finally at once.
Throw(step, msg) ==
    /\ result' = Caught(result, msg)
    /\ failed' = Failing(step)
    /\ pc' = IF FileLogger THEN "mt_catch" ELSE "mt_finally"
    /\ UNCHANGED thrown

\* The failure of a statement inside getTableSchema or backupTable. dbUtils
\* throws the wrapped error at once; migrator.js first awaits logger.error and
\* then rethrows.
ThrowLogged(step, msg) ==
    IF FileLogger
    THEN /\ thrown' = msg
         /\ failed' = Failing(step)
         /\ pc' = "mt_rethrow"
         /\ UNCHANGED result
    ELSE Throw(step, msg)

\* Where the try block goes on after a step that migrator.js follows with an
\* awaited logger.log.
Logged(atLog, after) == IF FileLogger THEN atLog ELSE after

\* How migrateTable ends once finally is through: it returns the result, or
\* rejects with the error left propagating.
ExitFinally(th) == IF th = None THEN "mt_return" ELSE "mt_rejected"

\* The finally block from its two end() lines on: each is awaited only if its
\* variable was assigned.
CloseFrom(op, th) ==
    IF "sourceConn" \in op THEN "mt_close"
    ELSE IF "targetConn" \in op THEN "mt_close_tgt"
    ELSE ExitFinally(th)

\* Where control is once the catch block, or the try block, is through:
\* finally begins with the FK re-enable, and in the class without it with the
\* end() lines.
Finally(th) == IF impl = "legacy" THEN CloseFrom(open, th) ELSE "mt_finally"

\* ---------------------------------------------------------------- actions
\* helper migrateTables: the two createPool calls, outside the try.
CreatePools ==
    /\ pc = "start" /\ impl = "helper"
    /\ \/ /\ open' = {"sourcePool", "targetPool"}
          /\ migrationOrder' = tables
          /\ cur' = 1
          /\ pc' = "loop"
          /\ UNCHANGED faults
       \/ /\ CanFail
          /\ open' \in {{}, {"sourcePool"}}
          /\ pc' = "raised"
          /\ faults' = faults + 1
          /\ UNCHANGED <<migrationOrder, cur>>
    /\ UNCHANGED <<inputVars, visitVars, poolVars, results, localVars, inflight, dbVars, histVars>>

\* root migrateTables: createPoolConnection(sourceConfig), outside the try.
OpenRunConn ==
    /\ pc = "start" /\ impl = "root"
    /\ \/ /\ open' = {"runSource"}
          /\ pc' = "order"
          /\ UNCHANGED faults
       \/ /\ CanFail
          /\ open' = {}
          /\ pc' = "raised"
          /\ faults' = faults + 1
    /\ UNCHANGED <<inputVars, visitVars, poolVars, loopVars, localVars, inflight, dbVars, histVars>>

\* root migrateTables: migrationOrder = await getMigrationOrder(sourceConn, tables);
\* a failing catalogue query rejects, and finally ends sourceConn.
GetOrder ==
    /\ pc = "order"
    /\ \/ /\ migrationOrder' = getMigrationOrder(tables, fks)
          /\ cur' = 1
          /\ pc' = "loop"
          /\ UNCHANGED <<open, faults>>
       \/ /\ CanFail /\ tables /= <<>>
          /\ open' = open \ {"runSource"}
          /\ pc' = "raised"
          /\ faults' = faults + 1
          /\ UNCHANGED <<migrationOrder, cur>>
    /\ UNCHANGED <<inputVars, visitVars, poolVars, results, localVars, inflight, dbVars, histVars>>

\* The third class's migrateTables: const results = {}; the loop runs
\* over the caller's list as it stands, with no pool and no catalogue query.
StartLoop ==
    /\ pc = "start" /\ impl = "legacy"
    /\ migrationOrder' = tables
    /\ cur' = 1
    /\ pc' = "loop"
    /\ UNCHANGED <<inputVars, visitVars, poolVars, results, localVars, inflight, dbVars, open,
                   histVars, faults>>

\* The loop calls migrateTable(table, options): the result record is created.
BeginTable ==
    /\ pc = "loop" /\ cur <= Len(migrationOrder)
    /\ result' = NewResult(table)
    /\ commonColumns' = {}
    /\ offset' = 0
    /\ rows' = <<>>
    /\ thrown' = None
    /\ tlog' = <<>>
    /\ reads' = 0
    /\ failed' = Append(failed, {})
    /\ started' = Append(started, table)
    /\ tgtAtStart' = [old |-> tgtOld[table], new |-> tgtNew[table]]
    /\ pc' = IF impl = "helper" THEN "mt_fkoff" ELSE "mt_open"
    /\ truncatedOn' = 0
    /\ UNCHANGED <<inputVars, visitVars, sessions, fkOff, loopVars, inflight, dbVars, open, returned, faults>>

\* The loop is over: return results. helper's finally awaits sourcePool.end()
\* and root's its sourceConn.end(); the third class has nothing to end.
Finish ==
    /\ pc = "loop" /\ cur > Len(migrationOrder)
    /\ open' = open \ {"sourcePool", "runSource"}
    /\ pc' = IF impl = "helper" THEN "end_target" ELSE "done"
    /\ UNCHANGED <<inputVars, visitVars, poolVars, loopVars, localVars, inflight, dbVars, histVars, faults>>

\* helper's finally, second wait: if (this.targetPool) await this.targetPool.end()
FinishTarget ==
    /\ pc = "end_target"
    /\ open' = open \ {"targetPool"}
    /\ pc' = "done"
    /\ sessions' = 0 /\ fkOff' = {}
    /\ UNCHANGED <<inputVars, visitVars, truncatedOn, loopVars, localVars, inflight, dbVars, histVars, faults>>

\* root migrateTable: sourceConn, then targetConn, inside the try; creating a
\* pool waits for nothing outside the process.
OpenConns ==
    /\ pc = "mt_open" /\ impl = "root"
    /\ \/ /\ open' = open \cup {"sourceConn", "targetConn"}
          /\ pc' = "mt_fkoff"
          /\ UNCHANGED <<result, thrown, failed, faults>>
       \/ /\ CanFail
          /\ open' \in {open, open \cup {"sourceConn"}}
          /\ Throw("open", DriverError("createPool"))
          /\ faults' = faults + 1
    /\ UNCHANGED <<inputVars, visitVars, poolVars, loopVars, commonColumns, offset, rows, inflight, dbVars,
                   tlog, reads, started, returned, tgtAtStart>>

\* The third class's migrateTable: sourceConn = await mysql.createConnection(sourceConfig)
OpenSource ==
    /\ pc = "mt_open" /\ impl = "legacy"
    /\ \/ /\ open' = open \cup {"sourceConn"}
          /\ pc' = "mt_open_tgt"
          /\ UNCHANGED <<result, thrown, failed, faults>>
       \/ /\ CanFail
          /\ Throw("open", DriverError("createConnection"))
          /\ faults' = faults + 1
          /\ UNCHANGED open
    /\ UNCHANGED <<inputVars, visitVars, poolVars, loopVars, commonColumns, offset, rows, inflight, dbVars,
                   tlog, reads, started, returned, tgtAtStart>>

\* The third class's migrateTable: targetConn = await mysql.createConnection(targetConfig),
\* one session of the target database; the schemas are read next.
OpenTarget ==
    /\ pc = "mt_open_tgt"
    /\ \/ /\ open' = open \cup {"targetConn"}
          /\ sessions' = 1
          /\ pc' = "mt_schema_src"
          /\ UNCHANGED <<result, thrown, failed, faults>>
       \/ /\ CanFail
          /\ Throw("open", DriverError("createConnection"))
          /\ faults' = faults + 1
          /\ UNCHANGED <<open, sessions>>
    /\ UNCHANGED <<inputVars, visitVars, fkOff, truncatedOn, loopVars, commonColumns, offset, rows, inflight, dbVars,
                   tlog, reads, started, returned, tgtAtStart>>

\* ------------------------------------------------ the target pool's sessions
\* connectionLimit: 10 (config/dbConfig.js)
connectionLimit == 10

\* INSERTs outstanding on the pool the attempt under way uses:
\* helper/migrator.js has one target pool for the run, migrator.js one per attempt.
OnPool == {p \in inflight : impl = "helper" \/ p.att = cur}

\* Sessions of the pool that serve no outstanding statement.
Free == (1..sessions) \ {p.sess : p \in OnPool}

\* pool.execute: the sessions that may serve a statement issued now, a free
\* one if there is one and else a new one while the limit allows. A connection
\* made by createConnection is its one session.
Serving ==
    IF impl = "legacy" THEN {1}
    ELSE IF Free /= {} THEN Free
    ELSE IF sessions < connectionLimit THEN {sessions + 1} ELSE {}

\* The sessions opened once session s has served a statement.
OpenedWith(s) == IF s > sessions THEN s ELSE sessions

\* The sessions opened once a statement issued now has been served.
OpenedAfter == IF impl = "legacy" \/ Free /= {} THEN sessions ELSE sessions + 1

\* The members of a set of sessions, lowest first.
RECURSIVE Ascending(_)
Ascending(S) ==
    IF S = {} THEN <<>>
    ELSE LET lo == CHOOSE x \in S : \A y \in S : x <= y
         IN <<lo>> \o Ascending(S \ {lo})

\* The sessions that serve n statements issued at once: free sessions taken
\* from the set S, then new ones; the one session of a single connection.
ServingAll(S, n) ==
    IF impl = "legacy" THEN [i \in 1..n |-> 1]
    ELSE Ascending(S) \o [i \in 1..(n - Cardinality(S)) |-> sessions + i]

\* if (foreignKeyStrategy === "disable" && !dryRun) await disableForeignKeyChecks(target)
FkDisable ==
    /\ pc = "mt_fkoff"
    /\ IF FkToggled
       THEN /\ tlog' = Append(tlog, "FK0")
            /\ \E s \in Serving :
                  /\ sessions' = OpenedWith(s)
                  /\ \/ /\ fkOff' = fkOff \cup {s}
                        /\ pc' = "mt_schema_src"
                        /\ UNCHANGED <<result, thrown, failed, faults>>
                     \/ /\ CanFail
                        /\ Throw("fkoff", DriverError("FK0"))
                        /\ faults' = faults + 1
                        /\ UNCHANGED fkOff
       ELSE /\ pc' = "mt_schema_src"
            /\ UNCHANGED <<result, thrown, failed, faults, tlog, sessions, fkOff>>
    /\ UNCHANGED <<inputVars, visitVars, truncatedOn, loopVars, commonColumns, offset, rows, inflight, dbVars, open,
                   reads, started, returned, tgtAtStart>>

\* const sourceSchema = await getTableSchema(source, tableName)
DescribeSource ==
    /\ pc = "mt_schema_src"
    /\ \/ /\ pc' = "mt_schema_tgt"
          /\ UNCHANGED <<result, thrown, failed, faults>>
       \/ /\ CanFail
          /\ ThrowLogged("schema_src", SchemaError(table, DriverError("DESCRIBE")))
          /\ faults' = faults + 1
    /\ UNCHANGED <<inputVars, visitVars, poolVars, loopVars, commonColumns, offset, rows, inflight, dbVars, open,
                   tlog, reads, started, returned, tgtAtStart>>

\* const targetSchema = await getTableSchema(target, tableName); commonColumns is
\* computed and an empty set throws.
DescribeTarget ==
    /\ pc = "mt_schema_tgt"
    /\ tlog' = Append(tlog, "DESCRIBE")
    /\ sessions' = OpenedAfter
    /\ \/ /\ commonColumns' = CommonColumns(table)
          /\ IF CommonColumns(table) = {}
             THEN Throw("common", NoCommonColumns(table))
             ELSE /\ pc' = "mt_backup"
                  /\ UNCHANGED <<result, thrown, failed>>
          /\ UNCHANGED faults
       \/ /\ CanFail
          /\ ThrowLogged("schema_tgt", SchemaError(table, DriverError("DESCRIBE")))
          /\ faults' = faults + 1
          /\ UNCHANGED commonColumns
    /\ UNCHANGED <<inputVars, visitVars, fkOff, truncatedOn, loopVars, offset, rows, inflight, dbVars, open,
                   reads, started, returned, tgtAtStart>>

\* The backup table is named <table>_backup_<timestamp to the second>: a backup
\* of t made earlier in the run has the same name when the clock has not moved
\* to the next second since.
BackupNameMayBeTaken(t) == backup[t] /= "none"

\* backupTable, first statement: CREATE TABLE <backup> LIKE <table>. It
\* succeeds under a fresh name, and fails without being a fault of the
\* database when the name is taken.
BackupCreate ==
    /\ pc = "mt_backup"
    /\ IF BackupWanted
       THEN /\ tlog' = Append(tlog, "CREATE_BACKUP")
            /\ sessions' = OpenedAfter
            /\ \/ /\ backup' = [backup EXCEPT ![table] = "created"]
                  /\ pc' = "mt_backup_copy"
                  /\ UNCHANGED <<result, thrown, failed, faults>>
               \/ /\ BackupNameMayBeTaken(table)
                  /\ ThrowLogged("backup_create", BackupError(table, DriverError("CREATE_BACKUP")))
                  /\ UNCHANGED <<backup, faults>>
               \/ /\ CanFail
                  /\ ThrowLogged("backup_create", BackupError(table, DriverError("CREATE_BACKUP")))
                  /\ faults' = faults + 1
                  /\ UNCHANGED backup
       ELSE /\ pc' = "mt_truncate"
            /\ UNCHANGED <<result, thrown, failed, faults, tlog, backup, sessions>>
    /\ UNCHANGED <<inputVars, visitVars, fkOff, truncatedOn, loopVars, commonColumns, offset, rows, inflight, tgtOld, tgtNew, tgtRows,
                   open, reads, started, returned, tgtAtStart>>

\* backupTable, second statement: INSERT INTO <backup> SELECT * FROM <table>;
\* then await logger.log("Created backup table: ...")
BackupCopy ==
    /\ pc = "mt_backup_copy"
    /\ tlog' = Append(tlog, "COPY_BACKUP")
    /\ sessions' = OpenedAfter
    /\ \/ /\ backup' = [backup EXCEPT ![table] = "copied"]
          /\ pc' = Logged("mt_backup_log", "mt_truncate")
          /\ UNCHANGED <<result, thrown, failed, faults>>
       \/ /\ CanFail
          /\ ThrowLogged("backup_copy", BackupError(table, DriverError("COPY_BACKUP")))
          /\ faults' = faults + 1
          /\ UNCHANGED backup
    /\ UNCHANGED <<inputVars, visitVars, fkOff, truncatedOn, loopVars, commonColumns, offset, rows, inflight, tgtOld, tgtNew, tgtRows,
                   open, reads, started, returned, tgtAtStart>>

\* migrator.js backupTable: await this.logger.log(...) settles. Rejected, it
\* is caught by backupTable's own catch, which logs and rethrows it.
BackupLog ==
    /\ pc = "mt_backup_log"
    /\ \/ /\ pc' = "mt_truncate"
          /\ UNCHANGED <<thrown, failed, faults>>
       \/ /\ CanFail
          /\ thrown' = LogError
          /\ failed' = Failing("backup_log")
          /\ pc' = "mt_rethrow"
          /\ faults' = faults + 1
    /\ UNCHANGED <<inputVars, visitVars, poolVars, loopVars, result, commonColumns, offset, rows, inflight,
                   dbVars, open, tlog, reads, started, returned, tgtAtStart>>

\* migrator.js getTableSchema and backupTable, catch: await this.logger.error(...)
\* settles and the error is rethrown, or the rejection of the log takes its
\* place; migrateTable's catch block receives what is thrown.
Rethrow ==
    /\ pc = "mt_rethrow"
    /\ \/ /\ result' = Caught(result, thrown)
          /\ UNCHANGED <<failed, faults>>
       \/ /\ CanFail
          /\ result' = Caught(result, LogError)
          /\ failed' = Failing("rethrow_log")
          /\ faults' = faults + 1
    /\ thrown' = None
    /\ pc' = "mt_catch"
    /\ UNCHANGED <<inputVars, visitVars, poolVars, loopVars, commonColumns, offset, rows, inflight,
                   dbVars, open, tlog, reads, started, returned, tgtAtStart>>

\* if (truncateTarget && !dryRun) await target.execute(`TRUNCATE TABLE ${tableName}`)
Truncate ==
    /\ pc = "mt_truncate"
    /\ IF TruncateWanted
       THEN /\ tlog' = Append(tlog, "TRUNCATE")
            /\ \E s \in Serving : truncatedOn' = s /\ sessions' = OpenedWith(s)
            /\ \/ /\ tgtOld' = [tgtOld EXCEPT ![table] = 0]
                  /\ tgtNew' = [tgtNew EXCEPT ![table] = NoRows]
                  /\ tgtRows' = [tgtRows EXCEPT ![table] = {}]
                  /\ pc' = "mt_read"
                  /\ UNCHANGED <<result, thrown, failed, faults>>
               \/ /\ CanFail
                  /\ Throw("truncate", DriverError("TRUNCATE"))
                  /\ faults' = faults + 1
                  /\ UNCHANGED <<tgtOld, tgtNew, tgtRows>>
       ELSE /\ pc' = "mt_read"
            /\ UNCHANGED <<result, thrown, failed, faults, tlog, tgtOld, tgtNew, tgtRows, sessions,
                           truncatedOn>>
    /\ UNCHANGED <<inputVars, visitVars, fkOff, loopVars, commonColumns, offset, rows, inflight, backup,
                   open, reads, started, returned, tgtAtStart>>

\* result.rowsMigrated += rows.length
RowsCounted(res, chunk) == [res EXCEPT !.rowsMigrated = @ + Len(chunk)]

\* Mutant: the read offset advances by the rows read, not by the page size.
NextOffsetByRows(off, chunk) == off + Len(chunk)

\* offset += chunkSize
NextOffset(off, chunk) == off + options.chunkSize

\* Mutant: the first INSERT to succeed resolves the wait for the whole chunk.
ChunkDoneAtFirst(left) == TRUE

\* await Promise.all(insertPromises) resolves when none of the chunk's INSERTs
\* is left in flight
ChunkDone(left) == left = {}

\* const insertColumns = commonColumns: the columns the SELECT reads and the
\* INSERT names, its values being insertColumns.map(col => row[col])
InsertColumns == commonColumns

\* n "INSERT" entries
RECURSIVE Inserts(_)
Inserts(n) == IF n = 0 THEN <<>> ELSE <<"INSERT">> \o Inserts(n - 1)

\* One pass of the while loop up to its first await on the target: the source
\* read; on an empty page the loop breaks, success is set and the closing log
\* is awaited; in a dry run the rows are counted; otherwise one INSERT per row
\* is launched and Promise.all awaited.
ReadChunk ==
    /\ pc = "mt_read"
    /\ reads' = reads + 1
    /\ \/ /\ LET chunk == SourcePage(table, offset, options.chunkSize)
             IN IF chunk = <<>>
                THEN /\ result' = [result EXCEPT !.success = TRUE]
                     /\ pc' = Logged("mt_success_log", "mt_finally")
                     /\ UNCHANGED <<offset, rows, inflight, tlog, sessions>>
                ELSE IF dryRun
                THEN /\ result' = RowsCounted(result, chunk)
                     /\ offset' = NextOffset(offset, chunk)
                     /\ pc' = "mt_read"
                     /\ UNCHANGED <<rows, inflight, tlog, sessions>>
                ELSE /\ rows' = chunk
                     /\ \E S \in SUBSET Free :
                           /\ Cardinality(S) = Min(Len(chunk), Cardinality(Free))
                           /\ LET on == ServingAll(S, Len(chunk))
                              IN /\ inflight' = inflight \cup
                                       {[att |-> cur, row |-> chunk[i], sess |-> on[i],
                                         cols |-> InsertColumns] :
                                          i \in 1..Len(chunk)}
                                 /\ sessions' = OpenedWith(on[Len(chunk)])
                     /\ tlog' = tlog \o Inserts(Len(chunk))
                     /\ pc' = "mt_wait"
                     /\ UNCHANGED <<result, offset>>
          /\ UNCHANGED <<thrown, failed, faults>>
       \/ /\ CanFail
          /\ Throw("read", DriverError("SELECT"))
          /\ faults' = faults + 1
          /\ UNCHANGED <<offset, rows, inflight, tlog, sessions>>
    /\ UNCHANGED <<inputVars, visitVars, fkOff, truncatedOn, loopVars, commonColumns, dbVars, open,
                   started, returned, tgtAtStart>>

\* The database executes INSERT INTO t (cols) only when t has every column
\* named; otherwise it rejects the statement, which is no fault of its own.
Insertable(p) == p.cols \subseteq tgtSchema[migrationOrder[p.att]]

\* The INSERT p settles. A successful INSERT adds its row to the target table.
\* While Promise.all of p's chunk is awaited: the last success resolves it
\* (rowsMigrated and offset advance, and the chunk's log is awaited), the first
\* failure rejects it (catch runs) and leaves the chunk's other INSERTs in
\* flight, their outcome unobserved.
InsertSettle(p, ok) ==
    /\ p \in inflight
    /\ ok => Insertable(p)
    /\ ok \/ CanFail \/ ~Insertable(p)
    /\ inflight' = inflight \ {p}
    /\ faults' = IF ok \/ ~Insertable(p) THEN faults ELSE faults + 1
    /\ tgtNew' = IF ok
                 THEN [tgtNew EXCEPT ![migrationOrder[p.att]][p.row] = @ + 1]
                 ELSE tgtNew
    /\ tgtRows' = IF ok
                  THEN [tgtRows EXCEPT ![migrationOrder[p.att]] =
                          @ \cup {[row |-> p.row, cols |-> p.cols]}]
                  ELSE tgtRows
    /\ IF pc = "mt_wait" /\ p.att = cur
       THEN IF ~ok
            THEN /\ Throw("insert", DriverError("INSERT"))
                 /\ rows' = <<>>
                 /\ UNCHANGED offset
            ELSE IF ChunkDone({q \in inflight \ {p} : q.att = cur})
            THEN /\ result' = RowsCounted(result, rows)
                 /\ offset' = NextOffset(offset, rows)
                 /\ rows' = <<>>
                 /\ pc' = Logged("mt_chunk_log", "mt_read")
                 /\ UNCHANGED <<thrown, failed>>
            ELSE UNCHANGED <<result, thrown, offset, rows, pc, failed>>
       ELSE UNCHANGED <<result, thrown, offset, rows, pc, failed>>
    /\ UNCHANGED <<inputVars, visitVars, poolVars, loopVars, commonColumns, tgtOld, backup, open,
                   tlog, reads, started, returned, tgtAtStart>>

\* migrator.js, end of the loop body: await this.logger.log("Migrated ...")
\* settles; rejected, it is thrown inside the try.
ChunkLog ==
    /\ pc = "mt_chunk_log"
    /\ \/ /\ pc' = "mt_read"
          /\ UNCHANGED <<result, thrown, failed, faults>>
       \/ /\ CanFail
          /\ Throw("chunk_log", LogError)
          /\ faults' = faults + 1
    /\ UNCHANGED <<inputVars, visitVars, poolVars, loopVars, commonColumns, offset, rows, inflight,
                   dbVars, open, tlog, reads, started, returned, tgtAtStart>>

\* migrator.js, after result.success = true: await this.logger.log("Successfully
\* migrated ...") settles; rejected, it is thrown inside the try.
SuccessLog ==
    /\ pc = "mt_success_log"
    /\ \/ /\ pc' = Finally(thrown)
          /\ UNCHANGED <<result, thrown, failed, faults>>
       \/ /\ CanFail
          /\ Throw("success_log", LogError)
          /\ faults' = faults + 1
    /\ UNCHANGED <<inputVars, visitVars, poolVars, loopVars, commonColumns, offset, rows, inflight,
                   dbVars, open, tlog, reads, started, returned, tgtAtStart>>

\* migrator.js, catch block: await this.logger.error("Migration failed ...")
\* settles. Rejected, the rejection leaves the catch block: finally runs and
\* migrateTable rejects.
CatchLog ==
    /\ pc = "mt_catch"
    /\ \/ /\ UNCHANGED <<thrown, failed, faults>>
       \/ /\ CanFail
          /\ thrown' = LogError
          /\ failed' = Failing("catch_log")
          /\ faults' = faults + 1
    /\ pc' = Finally(thrown')
    /\ UNCHANGED <<inputVars, visitVars, poolVars, loopVars, result, commonColumns, offset, rows, inflight,
                   dbVars, open, tlog, reads, started, returned, tgtAtStart>>

\* Mutant: a failed re-enable adds its message and leaves success as it is.
EnableFailedNoted(res, msg) == [res EXCEPT !.errors = Append(@, msg)]

\* What the catch around enableForeignKeyChecks does to the result: it only logs.
EnableFailed(res, msg) == res

\* finally: if (foreignKeyStrategy === "disable" && !dryRun) try enableForeignKeyChecks;
\* a failure is caught and logged. The third class has no such statement:
\* its finally begins with the end() calls.
FkEnable ==
    /\ pc = "mt_finally"
    /\ IF FkRestored
       THEN /\ tlog' = Append(tlog, "FK1")
            /\ \E s \in Serving :
                  /\ sessions' = OpenedWith(s)
                  /\ \/ /\ fkOff' = fkOff \ {s}
                        /\ pc' = CloseFrom(open, thrown)
                        /\ UNCHANGED <<result, failed, faults>>
                     \/ /\ CanFail
                        /\ result' = EnableFailed(result, DriverError("FK1"))
                        /\ failed' = Failing("fkon")
                        /\ faults' = faults + 1
                        /\ pc' = Logged("mt_fkon_log", CloseFrom(open, thrown))
                        /\ UNCHANGED fkOff
       ELSE /\ pc' = CloseFrom(open, thrown)
            /\ UNCHANGED <<result, failed, faults, tlog, sessions, fkOff>>
    /\ UNCHANGED <<inputVars, visitVars, truncatedOn, loopVars, commonColumns, offset, rows, thrown, inflight, dbVars, open,
                   reads, started, returned, tgtAtStart>>

\* root finally, catch (err): await this.logger.error("Error re-enabling ...")
\* settles. Rejected, the rejection leaves the finally block before its end()
\* lines, and migrateTable rejects with it.
FkEnableLog ==
    /\ pc = "mt_fkon_log"
    /\ \/ /\ pc' = CloseFrom(open, thrown)
          /\ UNCHANGED <<thrown, failed, faults>>
       \/ /\ CanFail
          /\ thrown' = LogError
          /\ failed' = Failing("fkon_log")
          /\ faults' = faults + 1
          /\ pc' = "mt_rejected"
    /\ UNCHANGED <<inputVars, visitVars, poolVars, loopVars, result, commonColumns, offset, rows, inflight,
                   dbVars, open, tlog, reads, started, returned, tgtAtStart>>

\* migrator.js finally: if (sourceConn) await sourceConn.end()
CloseConns ==
    /\ pc = "mt_close"
    /\ open' = open \ {"sourceConn"}
    /\ pc' = CloseFrom(open', thrown)
    /\ UNCHANGED <<inputVars, visitVars, poolVars, loopVars, localVars, inflight, dbVars, histVars, faults>>

\* migrator.js finally: if (targetConn) await targetConn.end()
CloseTarget ==
    /\ pc = "mt_close_tgt"
    /\ open' = open \ {"targetConn"}
    /\ pc' = ExitFinally(thrown)
    /\ sessions' = 0 /\ fkOff' = {}
    /\ UNCHANGED <<inputVars, visitVars, truncatedOn, loopVars, localVars, inflight, dbVars, histVars, faults>>

\* Whether the loop goes on to the next table after a result: it always does,
\* the loop body has no break and migrateTable's result is not inspected.
LoopContinues(res) == TRUE

\* return result; results[table] = <the result>; the loop advances.
ReturnTable ==
    /\ pc = "mt_return"
    /\ results' = [t \in DOMAIN results \cup {table} |->
                     IF t = table THEN result ELSE results[t]]
    /\ returned' = Append(returned, table)
    /\ cur' = IF LoopContinues(result) THEN cur + 1 ELSE Len(migrationOrder) + 1
    /\ pc' = "loop"
    /\ UNCHANGED <<inputVars, visitVars, poolVars, migrationOrder, localVars, inflight, dbVars, open,
                   tlog, reads, started, failed, tgtAtStart, faults>>

\* The third class's migrateTables, catch (error): results[table] = { table,
\* success: false, errors: [error.message] }
Rejected(t, msg) == [table |-> t, success |-> FALSE, errors |-> <<msg>>]

\* migrateTable rejects and root's migrateTables has no catch: its finally
\* awaits sourceConn.end() and the run rejects, the tables left unattempted.
RunRejects ==
    /\ pc = "mt_rejected" /\ impl = "root"
    /\ open' = open \ {"runSource"}
    /\ pc' = "raised"
    /\ UNCHANGED <<inputVars, visitVars, poolVars, loopVars, localVars, inflight, dbVars, histVars, faults>>

\* migrateTable rejects inside the third class's migrateTables' try: its catch
\* stores a record of its own making and the loop advances.
CatchTable ==
    /\ pc = "mt_rejected" /\ impl = "legacy"
    /\ results' = [t \in DOMAIN results \cup {table} |->
                     IF t = table THEN Rejected(table, thrown) ELSE results[t]]
    /\ thrown' = None
    /\ returned' = Append(returned, table)
    /\ cur' = cur + 1
    /\ pc' = "loop"
    /\ UNCHANGED <<inputVars, visitVars, poolVars, migrationOrder, result, commonColumns, offset, rows,
                   inflight, dbVars, open, tlog, reads, started, failed, tgtAtStart, faults>>

\* ------------------------------------------------------------ initial states
AllOptions ==
    [truncateTarget : BOOLEAN, chunkSize : 1..MaxChunk, ignoreColumns : IgnoreLists,
     foreignKeyStrategy : Strategies, dryRun : BOOLEAN]

\* The state of a migrator just constructed, before migrateTables is called.
Constructed ==
    /\ migrationOrder = <<>>
    /\ cur = 0
    /\ results = <<>>
    /\ result = NewResult("")
    /\ commonColumns = {}
    /\ offset = 0
    /\ rows = <<>>
    /\ thrown = <<>>
    /\ inflight = {}
    /\ tgtNew = [t \in Tables |-> NoRows]
    /\ tgtRows = [t \in Tables |-> {}]
    /\ backup = [t \in Tables |-> "none"]
    /\ open = {}
    /\ tlog = <<>>
    /\ reads = 0
    /\ started = <<>>
    /\ returned = <<>>
    /\ failed = <<>>
    /\ tgtAtStart = [old |-> 0, new |-> NoRows]
    /\ faults = 0
    /\ visited = {}
    /\ stack = <<>>
    /\ visits = [t \in Tables |-> 0]
    /\ sessions = 0
    /\ fkOff = {}
    /\ truncatedOn = 0

\* The three DatabaseMigrator classes of the repository: helper/migrator.js
\* ("helper"), migrator.js ("root"), and a third ("legacy") that opens one
\* connection per table with createConnection, handles no foreign keys and
\* computes no order.
Impls == {"helper", "root", "legacy"}

\* migrator.js's runMigration passes no dryRun option, and the third one no
\* foreignKeyStrategy either: there the strategy is fixed, for nothing reads it.
OptionsOf(i) ==
    {o \in AllOptions : /\ i /= "helper" => ~o.dryRun
                        /\ i = "legacy" => o.foreignKeyStrategy = "disable"}

ChainFks == {FK("B", "A"), FK("C", "B")}
CycleFks == {FK("A", "B"), FK("B", "A")}

\* The lists and catalogues of a run over three tables: migrator.js, which
\* orders the list by the catalogue, takes every order of the list with a
\* chain and with a cycle of keys; the classes that go by the list alone take
\* it forwards and backwards.
RunInputs(i) ==
    IF i = "root"
    THEN {<<t, f>> : t \in Perms(Tables), f \in {ChainFks, CycleFks}}
             \cup {<<<<"A", "B", "C">>, {}>>}
    ELSE {<<<<"A", "B", "C">>, ChainFks>>, <<<<"C", "B", "A">>, ChainFks>>}

\* A run over three tables.
Init ==
    /\ impl \in Impls
    /\ \E tf \in RunInputs(impl) : tables = tf[1] /\ fks = tf[2]
    /\ options \in {o \in OptionsOf(impl) :
                      /\ o.chunkSize = 1
                      /\ o.ignoreColumns = {}
                      /\ o.foreignKeyStrategy \in {"disable", "preserve"}}
    /\ \E n \in 0..RunMaxRows : srcRows = [t \in Tables |-> n]
    /\ srcSchema = [t \in Tables |-> RunCols]
    /\ tgtSchema = [t \in Tables |-> RunCols]
    /\ tgtOld = [t \in Tables |-> 1]
    /\ Constructed
    /\ pc = "start"

Next ==
    \/ CreatePools
    \/ OpenRunConn
    \/ GetOrder
    \/ StartLoop
    \/ BeginTable
    \/ Finish
    \/ FinishTarget
    \/ OpenConns
    \/ OpenSource
    \/ OpenTarget
    \/ FkDisable
    \/ DescribeSource
    \/ DescribeTarget
    \/ BackupCreate
    \/ BackupCopy
    \/ BackupLog
    \/ Rethrow
    \/ Truncate
    \/ ReadChunk
    \/ \E p \in inflight, ok \in BOOLEAN : InsertSettle(p, ok)
    \/ ChunkLog
    \/ SuccessLog
    \/ CatchLog
    \/ FkEnable
    \/ FkEnableLog
    \/ CloseConns
    \/ CloseTarget
    \/ ReturnTable
    \/ RunRejects
    \/ CatchTable

Spec == Init /\ [][Next]_vars

\* One table, with every option, schema and row count.
InitTable ==
    /\ impl \in Impls
    /\ tables = <<"A">>
    /\ fks = {}
    /\ options \in OptionsOf(impl)
    /\ \E n \in 0..MaxRows : srcRows = [t \in Tables |-> n]
    /\ \E s \in TableSchemas : srcSchema = [t \in Tables |-> s]
    /\ \E s \in TableSchemas : tgtSchema = [t \in Tables |-> s]
    /\ \E n \in 0..1 : tgtOld = [t \in Tables |-> n]
    /\ Constructed
    /\ pc = "start"

SpecTable == InitTable /\ [][Next]_vars

\* One table named twice in the list given to migrateTables: helper/migrator.js
\* attempts it twice in succession, migrator.js once (its order has each table once).
InitTwice ==
    /\ impl \in Impls
    /\ tables = <<"A", "A">>
    /\ fks = {}
    /\ options \in {o \in OptionsOf(impl) :
                      /\ o.ignoreColumns = {}
                      /\ o.foreignKeyStrategy = "disable"}
    /\ \E n \in 0..MaxRows : srcRows = [t \in Tables |-> n]
    /\ srcSchema = [t \in Tables |-> RunCols]
    /\ tgtSchema = [t \in Tables |-> RunCols]
    /\ \E n \in 0..1 : tgtOld = [t \in Tables |-> n]
    /\ Constructed
    /\ pc = "start"

SpecTwice == InitTwice /\ [][Next]_vars

\* getMigrationOrder alone, on every list of up to three names and every set
\* of foreign keys.
InitOrder ==
    /\ impl = "root"
    /\ tables \in SeqsUpTo(Tables, Cardinality(Tables))
    /\ fks \in SUBSET AllFks
    /\ options = [truncateTarget |-> TRUE, chunkSize |-> 1, ignoreColumns |-> {},
                  foreignKeyStrategy |-> "disable", dryRun |-> FALSE]
    /\ srcRows = [t \in Tables |-> 0]
    /\ srcSchema = [t \in Tables |-> RunCols]
    /\ tgtSchema = [t \in Tables |-> RunCols]
    /\ tgtOld = [t \in Tables |-> 0]
    /\ Constructed
    /\ pc = "order"

\* The call of getMigrationOrder, its queries succeeding.
ComputeOrder ==
    /\ pc = "order"
    /\ migrationOrder' = getMigrationOrder(tables, fks)
    /\ pc' = "ordered"
    /\ UNCHANGED <<inputVars, visitVars, poolVars, cur, results, localVars, inflight, dbVars, open, histVars, faults>>

NextOrder == ComputeOrder

SpecOrder == InitOrder /\ [][NextOrder]_vars

\* ------------------------------------- getMigrationOrder, call by call
\* The traversal of getMigrationOrder taken one call of visit at a time. A
\* frame of the stack is a for-of loop under way: the table whose visit runs
\* it ("" for the loop over the list in getMigrationOrder itself) and the
\* tables it has still to call visit for.
InitVisit ==
    /\ impl = "root"
    /\ tables \in SeqsUpTo(Tables, Cardinality(Tables))
    /\ fks \in SUBSET AllFks
    /\ options = [truncateTarget |-> TRUE, chunkSize |-> 1, ignoreColumns |-> {},
                  foreignKeyStrategy |-> "disable", dryRun |-> FALSE]
    /\ srcRows = [t \in Tables |-> 0]
    /\ srcSchema = [t \in Tables |-> RunCols]
    /\ tgtSchema = [t \in Tables |-> RunCols]
    /\ tgtOld = [t \in Tables |-> 0]
    /\ Constructed
    /\ pc = "graph"

Frame(t, todo) == [table |-> t, todo |-> todo]
Top == stack[Len(stack)]
Pop == SubSeq(stack, 1, Len(stack) - 1)

\* Mutant: visit does not mark the table it is called for.
MarkedNever(vis, t) == vis

\* visited.add(table)
Marked(vis, t) == vis \cup {t}

\* The graph is built (its queries succeeding) and the loop over the list begins.
BuildGraph ==
    /\ pc = "graph"
    /\ stack' = <<Frame("", tables)>>
    /\ pc' = "visit"
    /\ UNCHANGED <<inputVars, loopVars, localVars, inflight, dbVars, open, histVars, faults,
                   visited, visits, poolVars>>

\* The innermost loop calls visit(t) for a table already visited: it returns at once.
VisitSkip ==
    /\ pc = "visit" /\ Top.todo /= <<>>
    /\ Head(Top.todo) \in visited
    /\ stack' = Append(Pop, Frame(Top.table, Tail(Top.todo)))
    /\ UNCHANGED <<inputVars, pc, loopVars, localVars, inflight, dbVars, open, histVars, faults,
                   visited, visits, poolVars>>

\* The innermost loop calls visit(t) for a table not yet visited: it is marked
\* and the loop over its dependencies begins.
VisitEnter ==
    /\ pc = "visit" /\ Top.todo /= <<>>
    /\ LET t == Head(Top.todo)
       IN /\ t \notin visited
          /\ visited' = Marked(visited, t)
          /\ visits' = [visits EXCEPT ![t] = @ + 1]
          /\ stack' = Append(Append(Pop, Frame(Top.table, Tail(Top.todo))),
                             Frame(t, dependencyGraph(tables, fks, t)))
    /\ UNCHANGED <<inputVars, pc, loopVars, localVars, inflight, dbVars, open, histVars, faults,
                   poolVars>>

\* The loop of visit(table) is over: order.unshift(table) and visit returns.
VisitLeave ==
    /\ pc = "visit" /\ Top.todo = <<>> /\ Len(stack) > 1
    /\ migrationOrder' = <<Top.table>> \o migrationOrder
    /\ stack' = Pop
    /\ UNCHANGED <<inputVars, pc, cur, results, localVars, inflight, dbVars, open, histVars,
                   faults, visited, visits, poolVars>>

\* The loop over the list is over: return order.
OrderReturn ==
    /\ pc = "visit" /\ Top.todo = <<>> /\ Len(stack) = 1
    /\ stack' = <<>>
    /\ pc' = "ordered"
    /\ UNCHANGED <<inputVars, loopVars, localVars, inflight, dbVars, open, histVars, faults,
                   visited, visits, poolVars>>

NextVisit ==
    \/ BuildGraph
    \/ VisitSkip
    \/ VisitEnter
    \/ VisitLeave
    \/ OrderReturn

\* visit is synchronous code: once called, the traversal runs on without
\* yielding until getMigrationOrder returns.
SpecVisit == InitVisit /\ [][NextVisit]_vars /\ WF_vars(NextVisit)

\* ------------------------------------------------------------------ claims
\* The attempt begun last, its table and the steps of it that failed.
attempted == started[Len(started)]
failedNow == failed[Len(failed)]
\* The failed steps inside the try block: all but the FK re-enable and the
\* logging done by the catch blocks.
OutsideTry == {"fkon", "fkon_log", "catch_log"}
tryFailed == failedNow \ OutsideTry

\* The classes that implement foreignKeyStrategy, helper/migrator.js and
\* migrator.js: the ones the claims below are stated of.
WithFkStrategy == impl \in {"helper", "root"}

\* The positions of the try block past the backup.
PastBackup == {"mt_truncate", "mt_read", "mt_wait", "mt_chunk_log", "mt_success_log"}

Count(s, x) == Cardinality({i \in 1..Len(s) : s[i] = x})

\* C1: for a working set whose foreign keys have no cycle, the order returned
\* by getMigrationOrder has the referenced (parent) table before the
\* referencing (child) table, for every foreign key among the working set.
C1_ParentBeforeChild ==
    (pc = "ordered" /\ ~HasCycle(tables, fks)) =>
        \A k \in EdgesAmong(tables, fks) :
            Before(migrationOrder, k.REFERENCED_TABLE_NAME, k.TABLE_NAME)

\* C2: in a run of migrateTables, for every foreign key among the requested
\* tables (no cycle), the child's attempt begins only after the parent's
\* attempt has returned, whatever the order of the caller's list.
C2_ParentReturnsBeforeChildBegins ==
    ~HasCycle(tables, fks) =>
        \A k \in EdgesAmong(tables, fks) :
            Includes(started, k.TABLE_NAME) => Includes(returned, k.REFERENCED_TABLE_NAME)

\* C3: when the foreign keys among the working set contain a cycle, computing
\* the order fails and the run is aborted before any table attempt starts: no
\* order is produced, no attempt begins and the run never completes with
\* results (stated of the implementation that computes an order).
C3_CycleAbortsRun ==
    (impl = "root" /\ HasCycle(tables, fks)) =>
        (migrationOrder = <<>> /\ started = <<>> /\ pc /= "done")

\* Both backup statements were issued before the i-th statement of the attempt.
BackupIssuedBefore(i) ==
    \E j, k \in 1..(i - 1) : j < k /\ tlog[j] = "CREATE_BACKUP" /\ tlog[k] = "COPY_BACKUP"

BackupFailed == failedNow \cap {"backup_create", "backup_copy"} /= {}

TargetUntouched ==
    tgtOld[attempted] = tgtAtStart.old /\ tgtNew[attempted] = tgtAtStart.new

\* C4: in a non-dry-run attempt no TRUNCATE and no row INSERT is issued on the
\* target unless both backup statements of the attempt were issued before it
\* and succeeded; if a backup statement fails the attempt ends with
\* success=false, rowsMigrated=0 and the target table's rows unchanged.
C4_BackupBeforeDestructive ==
    (started /= <<>> /\ ~options.dryRun) =>
        /\ \A i \in 1..Len(tlog) :
               tlog[i] \in {"TRUNCATE", "INSERT"} => (BackupIssuedBefore(i) /\ ~BackupFailed)
        /\ BackupFailed =>
               /\ ~result.success
               /\ result.rowsMigrated = 0
               /\ TargetUntouched
               /\ pc \notin PastBackup

C4_Witness ==
    /\ pc = "mt_return"
    /\ "backup_copy" \in failedNow
    /\ options.truncateTarget /\ ~options.dryRun
    /\ tgtAtStart.old = 1 /\ srcRows[attempted] > 0

\* C5: migrateTable never raises to its caller, and whatever step of the
\* attempt failed, the FK re-enable included, the returned result has
\* success=false and a message in errors.
C5_EveryFailureRecorded ==
    WithFkStrategy =>
        /\ pc /= "mt_rejected"
        /\ (pc = "mt_return" /\ failedNow /= {}) => (~result.success /\ result.errors /= <<>>)

\* C6: every table of the requested list is attempted exactly once whatever
\* the outcome of the tables before it; each result, once returned, stays what
\* the table's own steps made it (success exactly when none of its steps
\* inside the try block failed); the run ends only by returning the mapping,
\* which has every table, once an attempt has begun.
C6_EveryTableAttemptedOnce ==
    WithFkStrategy =>
    /\ \A t \in Tables : Count(started, t) <= 1
    /\ \A i \in 1..Len(returned) :
           /\ returned[i] = started[i]
           /\ returned[i] \in DOMAIN results
           /\ results[returned[i]].table = returned[i]
           /\ results[returned[i]].success = (failed[i] \ OutsideTry = {})
    /\ pc = "raised" => started = <<>>
    /\ pc = "done" =>
           /\ DOMAIN results = Range(tables)
           /\ \A t \in Range(tables) : Count(started, t) = 1 /\ Count(returned, t) = 1

\* C7: with dryRun=true the attempt issues no mutating statement on the target
\* (only the schema read), launches no INSERT, leaves the target table's rows
\* and backup state unchanged, and when no statement fails returns
\* success=true with rowsMigrated equal to the source's row count.
C7_DryRunMutatesNothing ==
    (options.dryRun /\ started /= <<>>) =>
        /\ \A i \in 1..Len(tlog) : tlog[i] = "DESCRIBE"
        /\ inflight = {}
        /\ TargetUntouched
        /\ backup[attempted] = "none"
        /\ (pc = "mt_return" /\ failedNow = {}) =>
               (result.success /\ result.rowsMigrated = srcRows[attempted])

C7_Witness ==
    /\ options.dryRun /\ pc = "mt_return"
    /\ options.truncateTarget /\ options.foreignKeyStrategy = "disable"
    /\ result.success /\ result.rowsMigrated = MaxRows
    /\ tgtOld[attempted] = 1

EnabledOnceAndLast ==
    /\ Count(tlog, "FK1") = 1
    /\ tlog[Len(tlog)] = "FK1"

\* C8 as stated: with strategy "disable" and dryRun false, every attempt has
\* issued the FK re-enable exactly once, as its last statement, when it returns.
C8_EnableOnEveryExit ==
    (/\ WithFkStrategy
     /\ pc = "mt_return" /\ options.foreignKeyStrategy = "disable" /\ ~options.dryRun) =>
        EnabledOnceAndLast

\* C8, amended: the same of every attempt that obtained its connections (an
\* attempt of migrator.js whose pool could not be opened has no target to
\* issue the statement on), whether it returns or rejects; and no attempt
\* issues the re-enable twice.
C8_EnableOnEveryExitWithTarget ==
    WithFkStrategy =>
    /\ Count(tlog, "FK1") <= 1
    /\ (/\ pc \in {"mt_return", "mt_rejected"}
        /\ options.foreignKeyStrategy = "disable" /\ ~options.dryRun
        /\ "open" \notin failedNow) => EnabledOnceAndLast

C8_Witness ==
    /\ pc = "mt_return"
    /\ "fkoff" \in failedNow
    /\ tlog = <<"FK0", "FK1">>

\* C9: an attempt whose FK re-enable failed has the result its try block
\* made (success exactly when no step of the try block failed, no error
\* added), is not raised to the caller on account of the re-enable, and the
\* run goes on to the remaining tables.
C9_EnableFailureIgnored ==
    (WithFkStrategy /\ started /= <<>> /\ "fkon" \in failedNow) =>
        /\ result.success = (tryFailed = {})
        /\ Len(result.errors) = (IF tryFailed = {} THEN 0 ELSE 1)
        /\ "catch_log" \notin failedNow => pc \notin {"mt_rejected", "raised"}
        /\ pc = "done" => Range(started) = Range(tables)

\* C10: when the strategy is not "disable", or dryRun is true, the attempt
\* issues neither the FK disable nor the FK enable; when the strategy is
\* "disable" and dryRun is false the first statement the attempt issues on
\* the target is the FK disable.
C10_ToggleOnlyWhenDisable ==
    WithFkStrategy =>
    /\ (options.foreignKeyStrategy /= "disable" \/ options.dryRun) =>
           \A i \in 1..Len(tlog) : tlog[i] \notin {"FK0", "FK1"}
    /\ (options.foreignKeyStrategy = "disable" /\ ~options.dryRun /\ tlog /= <<>>) =>
           tlog[1] = "FK0"
    /\ (options.foreignKeyStrategy = "disable" /\ ~options.dryRun
            /\ pc \in {"mt_schema_src", "mt_schema_tgt", "mt_backup", "mt_truncate", "mt_read"}) =>
           tlog /= <<>>

C10_Witness ==
    /\ pc = "mt_return"
    /\ options.foreignKeyStrategy = "cascade" /\ ~options.dryRun
    /\ Includes(tlog, "TRUNCATE") /\ Includes(tlog, "INSERT")
\* ------------------------------------------------------------ C11
\* No statement of the attempt under way has failed.
NoFailure == failedNow = {}

\* No statement of the attempt under way has failed: it failed, if at all, for
\* the want of a common column.
NoStatementFailed == failedNow \subseteq {"common"}

\* C11: with truncateTarget set, nothing ignored, the same columns on both
\* sides, a source of N rows and no failing statement, migrateTable returns
\* success = true and rowsMigrated = N, whatever N and chunkSize are.
C11_AllRowsMigrated ==
    (/\ pc = "mt_return"
     /\ options.truncateTarget
     /\ options.ignoreColumns = {}
     /\ srcSchema[attempted] = tgtSchema[attempted]
     /\ NoStatementFailed)
    => /\ result.success
       /\ result.rowsMigrated = srcRows[attempted]
       /\ result.errors = <<>>

\* ------------------------------------------------------------ C12
\* No column is in both schemas and outside ignoreColumns (read off the
\* inputs, not off the attempt's commonColumns).
NothingInCommon ==
    \A c \in srcSchema[attempted] \cap tgtSchema[attempted] : c \in options.ignoreColumns

\* The attempt under way has got as far as comparing the two schemas.
Compared == /\ Includes(tlog, "DESCRIBE")
            /\ tryFailed \cap {"schema_src", "schema_tgt"} = {}

\* C12: when no column is in both schemas and outside ignoreColumns, the
\* attempt issues no backup, no TRUNCATE, no source read and no INSERT and
\* counts no row; once the schemas are compared it fails with the message
\* 'No common columns found for table <table>' and returns that failure.
C12_NoCommonColumnsFailsEarly ==
    (impl = "helper" /\ started /= <<>> /\ NothingInCommon)
    => /\ \A s \in {"CREATE_BACKUP", "COPY_BACKUP", "TRUNCATE", "INSERT"} : ~Includes(tlog, s)
       /\ reads = 0
       /\ backup[attempted] = "none"
       /\ TargetUntouched
       /\ result.rowsMigrated = 0
       /\ pc \notin {"mt_backup", "mt_backup_copy"} \cup PastBackup
       /\ Compared => /\ "common" \in failedNow
                      /\ result.success = FALSE
                      /\ result.errors = <<NoCommonColumns(attempted)>>
       /\ pc = "mt_return" => ~result.success

\* ------------------------------------------------------------ C13
\* Position of the first TRUNCATE in the attempt's target statements, 0 if none.
TruncateAt == IF Includes(tlog, "TRUNCATE") THEN IndexOf(tlog, "TRUNCATE") ELSE 0

\* C13: TRUNCATE is issued at most once per attempt, only with truncateTarget
\* set and dryRun off, after both backup statements and before any source
\* read or INSERT; with truncateTarget off none is issued and the rows the
\* target held are kept; when TRUNCATE fails the attempt ends with
\* success = false, rowsMigrated = 0 and no INSERT issued.
C13_TruncateOnceAfterBackup ==
    started /= <<>> =>
    /\ Count(tlog, "TRUNCATE") <= 1
    /\ Includes(tlog, "TRUNCATE") =>
          /\ options.truncateTarget /\ ~options.dryRun
          /\ BackupIssuedBefore(TruncateAt)
          /\ \A i \in 1..TruncateAt : tlog[i] /= "INSERT"
    /\ (reads > 0 /\ options.truncateTarget /\ ~options.dryRun) => Includes(tlog, "TRUNCATE")
    /\ ~options.truncateTarget =>
          /\ ~Includes(tlog, "TRUNCATE")
          /\ tgtOld[attempted] = tgtAtStart.old
          /\ \A r \in 1..MaxRows : tgtNew[attempted][r] >= tgtAtStart.new[r]
    /\ "truncate" \in failedNow =>
          /\ ~Includes(tlog, "INSERT")
          /\ reads = 0
          /\ result.rowsMigrated = 0
          /\ result.success = FALSE
          /\ TargetUntouched

\* An attempt that emptied a target holding rows and went on to write the
\* source's rows into it has returned.
C13_Witness ==
    /\ pc = "mt_return"
    /\ Includes(tlog, "TRUNCATE")
    /\ tgtAtStart.old > 0
    /\ tgtOld[attempted] = 0
    /\ Includes(tlog, "INSERT")
    /\ result.success

\* ------------------------------------------------------------ C14
\* Rows a target table holds: those it had before the run and those written.
RECURSIVE SumTo(_, _)
SumTo(f, n) == IF n = 0 THEN 0 ELSE f[n] + SumTo(f, n - 1)
TargetCount(old, new) == old + SumTo(new, MaxRows)

\* The second attempt on the same table is about to return, and no statement
\* of the run was failed by the database.
SecondAttemptDone ==
    /\ pc = "mt_return"
    /\ Len(started) = 2 /\ started[1] = started[2]
    /\ faults = 0

\* C14: with truncateTarget set and the source unchanged, the target table
\* holds as many rows after the second of two attempts in succession as after
\* the first, whether the second derives a fresh backup name or, within the
\* same second, the first attempt's.
C14_SecondAttemptSameCount ==
    (SecondAttemptDone /\ options.truncateTarget)
    => TargetCount(tgtOld[attempted], tgtNew[attempted])
         = TargetCount(tgtAtStart.old, tgtAtStart.new)

\* The second attempt met the first one's backup name, and the target still
\* holds the MaxRows rows the first attempt wrote.
C14_Witness ==
    /\ SecondAttemptDone /\ options.truncateTarget /\ ~dryRun
    /\ "backup_create" \in failedNow
    /\ srcRows[attempted] = MaxRows
    /\ TargetCount(tgtOld[attempted], tgtNew[attempted]) = MaxRows

\* The second attempt made its backup under a fresh name and moved the rows again.
C14_WitnessFreshName ==
    /\ SecondAttemptDone /\ options.truncateTarget /\ ~dryRun
    /\ result.success /\ result.rowsMigrated = MaxRows
    /\ tgtAtStart.new = [r \in 1..MaxRows |-> 1]
    /\ TargetCount(tgtOld[attempted], tgtNew[attempted]) = MaxRows

\* ------------------------------------------------------------ C15
\* C15: the sequence getMigrationOrder returns holds every distinct table of
\* the working set exactly once and no other table, with or without foreign
\* keys among the tables and with or without repeated names in the list.
C15_OrderIsThePermutation ==
    pc = "ordered" =>
    /\ Range(migrationOrder) = Range(tables)
    /\ \A t \in Range(tables) : Count(migrationOrder, t) = 1
    /\ Len(migrationOrder) = Cardinality(Range(tables))

\* An order computed from a list that repeats a name, with a foreign key
\* among its tables and one from a table outside it.
C15_Witness ==
    /\ pc = "ordered"
    /\ Len(tables) > Cardinality(Range(tables))
    /\ Cardinality(Range(tables)) = 2
    /\ EdgesAmong(tables, fks) /= {}
    /\ \E k \in fks : ~Includes(tables, k.TABLE_NAME) /\ Includes(tables, k.REFERENCED_TABLE_NAME)
    /\ Len(migrationOrder) = 2

\* ------------------------------------------------------------ C16
\* C16: a row INSERT is outstanding only while the attempt that launched it
\* is waiting for its chunk: none is outstanding when the foreign-key checks
\* are re-enabled, when migrateTable returns or when the next attempt begins.
C16_InsertsSettledBeforeMovingOn ==
    \A p \in inflight : p.att = cur /\ pc = "mt_wait"

\* ------------------------------------------------------------ C17
\* The INSERTs of the attempt under way that are in flight.
InflightNow == {p \in inflight : p.att = cur}

\* Row r of the source was written to the target by the attempt under way.
Written(r) ==
    tgtNew[attempted][r] > (IF Includes(tlog, "TRUNCATE") THEN 0 ELSE tgtAtStart.new[r])

\* C17: within one table's transfer a source read is issued only when no
\* INSERT of the table is in flight and no step has failed, so the next chunk
\* is read after every INSERT of the chunk before has succeeded and nothing is
\* read after a failing chunk; and at most chunkSize INSERTs of the table are
\* in flight at any time.
C17_ChunksInSequence ==
    /\ [][reads' > reads => (InflightNow = {} /\ tryFailed = {})]_vars
    /\ [][(reads' > reads /\ reads > 0 /\ ~dryRun)
            => \A r \in Range(SourcePage(attempted, offset - options.chunkSize, options.chunkSize)) :
                  Written(r)]_vars
    /\ [](started /= <<>> => Cardinality(InflightNow) <= options.chunkSize)
    /\ []((started /= <<>> /\ "insert" \in failedNow) => reads * options.chunkSize = offset + options.chunkSize)

\* The second chunk of a table has been read and its INSERTs are in flight,
\* as many as chunkSize allows.
C17_Witness ==
    /\ pc = "mt_wait"
    /\ reads = 2
    /\ Cardinality(InflightNow) = options.chunkSize
    /\ result.rowsMigrated = options.chunkSize

\* ------------------------------------------------------------ C18
\* Chunks of the attempt under way that are complete: read and, outside a dry
\* run, written with every INSERT succeeding. Every source read but the one
\* still being handled, failed, or found empty has given a complete chunk.
ChunksCompleted ==
    IF pc \in {"mt_read", "mt_chunk_log"} \/ reads = 0 \/ "chunk_log" \in failedNow
    THEN reads ELSE reads - 1

\* Rows held by the first k pages of the source table t.
RowsOfChunks(t, k) == Min(k * options.chunkSize, srcRows[t])

\* C18: at every point of an attempt rowsMigrated is the number of rows of the
\* chunks completed so far (in a dry run, of the chunks read), all of them
\* written to the target outside a dry run; a chunk with a failing write adds
\* nothing, so a failed attempt returns the rows of the chunks completed before
\* the failure; and the read offset is chunkSize times the chunks completed.
C18_RowsMigratedCountsWholeChunks ==
    started /= <<>> =>
    /\ result.rowsMigrated = RowsOfChunks(attempted, ChunksCompleted)
    /\ offset = options.chunkSize * ChunksCompleted
    /\ ~dryRun => \A r \in 1..result.rowsMigrated : Written(r)
    /\ "insert" \in failedNow =>
          result.rowsMigrated = RowsOfChunks(attempted, reads - 1)

\* A failed attempt returns the rows of its one complete chunk: the second
\* chunk's write failed.
C18_Witness ==
    /\ pc = "mt_return"
    /\ "insert" \in failedNow
    /\ reads = 2
    /\ result.rowsMigrated = options.chunkSize
    /\ ~result.success

\* ------------------------------------------------------------ C19
\* C19: every connection or pool opened by migrateTable is ended when it
\* returns, and every one opened by migrateTables is ended when that call has
\* returned or raised, whichever way the call was left.
C19_EverythingOpenedIsEnded ==
    /\ pc \in {"mt_return", "mt_rejected", "loop"} => open \cap {"sourceConn", "targetConn"} = {}
    /\ pc \in {"done", "raised"} => open = {}

\* ------------------------------------------------------------ C20
\* The tables whose visit is under way, outermost first.
Visiting == [i \in 1..(Len(stack) - 1) |-> stack[i + 1].table]

\* C20: the traversal of getMigrationOrder goes past the visited test at most
\* once for each table, a table being marked before the loop over its
\* dependencies begins, and it ends, returning the order, for every list and
\* every set of foreign keys, cycles and self-references included.
C20_VisitOnceAndTerminates ==
    /\ [](\A t \in Tables : visits[t] <= 1)
    /\ [](pc = "visit" => /\ Range(Visiting) \subseteq visited
                          /\ \A i, j \in 1..Len(Visiting) : i /= j => Visiting[i] /= Visiting[j]
                          /\ Len(stack) <= Cardinality(Range(tables)) + 1)
    /\ [](pc = "ordered" => migrationOrder = getMigrationOrder(tables, fks))
    /\ <>(pc = "ordered")

\* The traversal has returned for three tables on a cycle, one of which also
\* references itself, each visited once.
C20_Witness ==
    /\ pc = "ordered"
    /\ fks = {FK("A", "B"), FK("B", "C"), FK("C", "A"), FK("B", "B")}
    /\ tables = <<"A", "B", "C">>
    /\ \A t \in Tables : visits[t] = 1
    /\ Len(migrationOrder) = 3

\* ------------------------------------------------------------ C21
\* C21: with the "disable" strategy outside a dry run, every INSERT of the
\* attempt is served, for as long as it is outstanding, by a session whose
\* foreign-key checks are off, and so is the attempt's TRUNCATE when it is issued.
C21_WritesOnSessionsWithChecksOff ==
    /\ [](FkToggled => \A p \in InflightNow : p.sess \in fkOff)
    /\ [][(FkToggled /\ truncatedOn = 0 /\ truncatedOn' /= 0) => truncatedOn' \in fkOff]_vars

\* ------------------------------------------------------------ C22
\* The shape every result record for table t has.
WellFormed(res, t) ==
    /\ res.table = t
    /\ res.success <=> res.errors = <<>>
    /\ Len(res.errors) <= 1
    /\ res.rowsMigrated \in Nat

\* C22: the result migrateTable returns, and every result the run holds of
\* the four fields migrateTable gives it, names
\* the requested table, has success exactly when errors is empty, at most one
\* error and rowsMigrated >= 0; and it has success only when no step of the
\* try block failed and the transfer loop ended on an empty source read.
C22_ResultWellFormed ==
    /\ pc = "mt_return" =>
          /\ WellFormed(result, attempted)
          /\ result.success =>
                /\ tryFailed = {}
                /\ reads >= 1
                /\ SourcePage(attempted, offset, options.chunkSize) = <<>>
                /\ reads = ChunksCompleted + 1
    /\ \A t \in DOMAIN results :
          DOMAIN results[t] = DOMAIN NewResult(t) => WellFormed(results[t], t)

\* A successful result is returned although re-enabling the checks failed,
\* after two chunks and the empty read.
C22_Witness ==
    /\ pc = "mt_return"
    /\ result.success /\ result.errors = <<>>
    /\ "fkon" \in failedNow
    /\ reads = 3
    /\ result.rowsMigrated = 2

\* ------------------------------------------------------------ C23
\* The TRUNCATE of the attempt under way emptied the table.
Truncated == Includes(tlog, "TRUNCATE") /\ "truncate" \notin failedNow

\* Rows the attempt under way has inserted into its target table so far.
InsertedNow ==
    SumTo(tgtNew[attempted], MaxRows)
      - (IF Truncated THEN 0 ELSE SumTo(tgtAtStart.new, MaxRows))

\* C23: when an attempt outside a dry run returns with none of its INSERTs
\* still outstanding, rowsMigrated is the number of rows the attempt inserted
\* into the target table.
C23_RowsMigratedIsRowsInserted ==
    (pc = "mt_return" /\ ~dryRun /\ InflightNow = {})
    => result.rowsMigrated = InsertedNow

\* ------------------------------------------------------------ C24
\* The source rows of table t, each as its values in the columns that are in
\* both schemas and not ignored (read off the inputs).
SourceProjected(t) ==
    {[row |-> r, cols |-> (srcSchema[t] \cap tgtSchema[t]) \ options.ignoreColumns] :
       r \in 1..srcRows[t]}

\* C24: with truncateTarget set and no failing statement, a successful attempt
\* outside a dry run leaves in the target exactly the source's rows, each
\* once, none skipped, each with the values of exactly the common columns.
C24_TargetIsSourceProjected ==
    (/\ pc = "mt_return"
     /\ ~dryRun
     /\ options.truncateTarget
     /\ NoFailure
     /\ result.success)
    => /\ tgtOld[attempted] = 0
       /\ \A r \in 1..MaxRows :
             tgtNew[attempted][r] = (IF r <= srcRows[attempted] THEN 1 ELSE 0)
       /\ tgtRows[attempted] = SourceProjected(attempted)
       /\ inflight = {}

====
